---- MODULE Spec2Model ----
(***************************************************************************)
(* Model of the card-transaction validation Lambda.                        *)
(*                                                                         *)
(*   src/lambda/models.py   CardTransaction, validate_record               *)
(*   src/lambda/app.py      _build_output_keys, handler                    *)
(*   src/airflow_dags/card_transaction_lambda_dag.py   retries             *)
(*                                                                         *)
(* Text is modelled as a sequence of characters wherever the code looks    *)
(* inside it (ids, amounts, object keys).  A created_at text is a sequence *)
(* of lexical tokens (date, separator, time, zone designator), which is    *)
(* the granularity at which the datetime parser decides.  Enum fields are  *)
(* compared whole, so they are plain strings.                              *)
(***************************************************************************)
EXTENDS Integers, Sequences, FiniteSets, TLC

\* ------------------------------------------------------------------ bounds

\* Longest batch (number of CSV data rows) explored.
MaxRows == 3
\* Longest object key explored by SpecKeys, in key pieces.
MaxKeyParts == 3

\* ------------------------------------------------------- program constants

\* default_args["retries"]: Airflow re-invokes the Lambda this many times.
Retries == 1

\* The six model fields, in declaration order (the order of e.errors()).
FieldOrder == <<"id", "organization_id", "amount", "currency", "status", "created_at">>

Fields == {FieldOrder[i] : i \in 1..Len(FieldOrder)}

Currencies == {"EUR", "USD", "GBP"}

Statuses == {"Success", "Error", "Pending"}

\* ------------------------------------------------------------ text helpers

Whitespace == {" ", "\t"}

Digits == {"0", "1", "2", "3", "4", "5", "6", "7", "8", "9"}

DigitVal(c) ==
    CASE c = "0" -> 0 [] c = "1" -> 1 [] c = "2" -> 2 [] c = "3" -> 3
      [] c = "4" -> 4 [] c = "5" -> 5 [] c = "6" -> 6 [] c = "7" -> 7
      [] c = "8" -> 8 [] c = "9" -> 9

RECURSIVE LStrip(_)
LStrip(s) ==
    IF s # <<>> /\ Head(s) \in Whitespace THEN LStrip(Tail(s)) ELSE s

RECURSIVE RStrip(_)
RStrip(s) ==
    IF s # <<>> /\ s[Len(s)] \in Whitespace
    THEN RStrip(SubSeq(s, 1, Len(s) - 1))
    ELSE s

\* str.strip()
Strip(s) == RStrip(LStrip(s))

\* str.endswith(suffix)
EndsWith(s, suffix) ==
    /\ Len(s) >= Len(suffix)
    /\ SubSeq(s, Len(s) - Len(suffix) + 1, Len(s)) = suffix

RECURSIVE DecimalValue(_)
DecimalValue(s) ==
    IF s = <<>> THEN 0
    ELSE 10 * DecimalValue(SubSeq(s, 1, Len(s) - 1)) + DigitVal(s[Len(s)])

\* ------------------------------------------------- pydantic field parsing

\* amount: int, lax mode, from str: an optional sign followed by decimal
\* digits.  (pydantic also accepts surrounding whitespace, "_" separators
\* and a ".0" tail; no amount text of this model has those.)
IntParses(s) ==
    LET body == IF s # <<>> /\ s[1] \in {"-", "+"} THEN Tail(s) ELSE s
    IN  /\ body # <<>>
        /\ \A i \in 1..Len(body) : body[i] \in Digits

IntValue(s) ==
    IF s[1] = "-" THEN 0 - DecimalValue(Tail(s))
    ELSE IF s[1] = "+" THEN DecimalValue(Tail(s))
    ELSE DecimalValue(s)

DateTokens == {"2025-11-10"}

TimeTokens == {"10:00:00"}

DateTimeSeparators == {"T", " "}

\* Zone designators and their UTC offset in minutes.
ZoneTokens == {"Z", "+00:00", "+02:00", "-05:00"}

ZoneOffsetMinutes(z) ==
    CASE z = "Z" -> 0
      [] z = "+00:00" -> 0
      [] z = "+02:00" -> 120
      [] z = "-05:00" -> 0 - 300

\* An all-digit text: seconds since the epoch.
UnixTokens == {"1762768800"}

\* 1762768800 s = 2025-11-10T10:00:00 UTC
UnixDate(u) == CASE u = "1762768800" -> "2025-11-10"

UnixTime(u) == CASE u = "1762768800" -> "10:00:00"

\* created_at: datetime, lax mode, from str.  pydantic accepts
\*   YYYY-MM-DD[T| ]HH:MM:SS[zone]      (tzinfo set only when a zone is given)
\*   an int as a string                 (Unix time; the result is UTC-aware)
\*   YYYY-MM-DD                         (midnight, naive)
DatetimeParses(v) ==
    \/ /\ Len(v) \in {3, 4}
       /\ v[1] \in DateTokens
       /\ v[2] \in DateTimeSeparators
       /\ v[3] \in TimeTokens
       /\ Len(v) = 4 => v[4] \in ZoneTokens
    \/ /\ Len(v) = 1
       /\ v[1] \in UnixTokens \cup DateTokens

DatetimeValue(v) ==
    IF Len(v) = 1 /\ v[1] \in UnixTokens
    THEN [date |-> UnixDate(v[1]), time |-> UnixTime(v[1]), aware |-> TRUE, offset |-> 0]
    ELSE IF Len(v) = 1
    THEN [date |-> v[1], time |-> "00:00:00", aware |-> FALSE, offset |-> 0]
    ELSE IF Len(v) = 3
    THEN [date |-> v[1], time |-> v[3], aware |-> FALSE, offset |-> 0]
    ELSE [date |-> v[1], time |-> v[3], aware |-> TRUE, offset |-> ZoneOffsetMinutes(v[4])]

\* ------------------------------------------------ CardTransaction (model)

\* @field_validator("id", "organization_id") not_empty: raises ValueError
not_empty(v) == v = <<>> \/ Strip(v) = <<>>

\* @field_validator("created_at") ensure_utc: raises ValueError
ensure_utc(dt) == ~dt.aware \/ dt.offset # 0

\* id / organization_id: str = Field(min_length=1), then not_empty
StrFieldError(v) ==
    IF Len(v) < 1 THEN "string_too_short"
    ELSE IF not_empty(v) THEN "value_error"
    ELSE "none"

\* amount: int = Field(ge=0)
AmountFieldError(v) ==
    IF ~IntParses(v) THEN "int_parsing"
    ELSE IF ~(IntValue(v) >= 0) THEN "greater_than_equal"
    ELSE "none"

\* currency / status: Literal[...]
LiteralFieldError(v, allowed) ==
    IF v \in allowed THEN "none" ELSE "literal_error"

\* created_at: datetime, then ensure_utc
CreatedAtFieldError(v) ==
    IF ~DatetimeParses(v) THEN "datetime_from_date_parsing"
    ELSE IF ensure_utc(DatetimeValue(v)) THEN "value_error"
    ELSE "none"

\* The error type pydantic reports for a field that is absent from the input
\* mapping (every field of the model is required).
MissingFieldError == "missing"

\* Mutant of FieldError: a column that the header lacks is read as an empty
\* text instead of being reported missing.
FieldErrorAbsentAsEmpty(raw, f) ==
    CASE f \in {"id", "organization_id"} ->
             StrFieldError(IF f \in DOMAIN raw THEN raw[f] ELSE <<>>)
      [] f = "amount" -> AmountFieldError(IF f \in DOMAIN raw THEN raw[f] ELSE <<>>)
      [] f = "currency" -> LiteralFieldError(IF f \in DOMAIN raw THEN raw[f] ELSE "", Currencies)
      [] f = "status" -> LiteralFieldError(IF f \in DOMAIN raw THEN raw[f] ELSE "", Statuses)
      [] f = "created_at" -> CreatedAtFieldError(IF f \in DOMAIN raw THEN raw[f] ELSE <<>>)

\* The error type of field f of the input mapping raw, "none" when it passes.
\* Each field reports at most one error: its validators run in sequence and
\* stop at the first that fails.
FieldError(raw, f) ==
    IF f \notin DOMAIN raw THEN MissingFieldError
    ELSE CASE f \in {"id", "organization_id"} -> StrFieldError(raw[f])
           [] f = "amount" -> AmountFieldError(raw[f])
           [] f = "currency" -> LiteralFieldError(raw[f], Currencies)
           [] f = "status" -> LiteralFieldError(raw[f], Statuses)
           [] f = "created_at" -> CreatedAtFieldError(raw[f])

\* One entry of ValidationError.errors().  A ValueError raised by a field
\* validator is reported as type "value_error" and its entry carries the
\* exception object itself under ctx["error"].
ErrorDetail(raw, f) ==
    [loc |-> f, type |-> FieldError(raw, f), ctx_error |-> FieldError(raw, f) = "value_error"]

RECURSIVE CollectErrors(_, _)
CollectErrors(raw, i) ==
    IF i > Len(FieldOrder) THEN <<>>
    ELSE (IF FieldError(raw, FieldOrder[i]) = "none" THEN <<>>
          ELSE <<ErrorDetail(raw, FieldOrder[i])>>)
         \o CollectErrors(raw, i + 1)

\* CardTransaction.model_validate(raw) when no field fails: the typed object.
ModelValue(raw) ==
    [id |-> raw["id"],
     organization_id |-> raw["organization_id"],
     amount |-> IntValue(raw["amount"]),
     currency |-> raw["currency"],
     status |-> raw["status"],
     created_at |-> DatetimeValue(raw["created_at"])]

\* validate_record(raw): (True, obj, None) or (False, raw, e.errors()).
\* The valid outcome carries the typed object in a one-element sequence and
\* the invalid outcome carries the raw mapping the same way.
validate_record(raw) ==
    LET errs == CollectErrors(raw, 1)
    IN  IF errs = <<>>
        THEN [ok |-> TRUE, model |-> <<ModelValue(raw)>>, raw |-> <<>>, errors |-> <<>>]
        ELSE [ok |-> FALSE, model |-> <<>>, raw |-> <<raw>>, errors |-> errs]

\* ----------------------------------------------------- _build_output_keys

CsvSuffix == <<".", "c", "s", "v">>

ValidSuffix == <<"_", "v", "a", "l", "i", "d", ".", "j", "s", "o", "n", "l">>

InvalidSuffix == <<"_", "i", "n", "v", "a", "l", "i", "d", ".", "j", "s", "o", "n", "l">>

\* Mutant of DropLast4: the dot of the extension is kept.
DropLast3(key) == SubSeq(key, 1, Len(key) - 3)

\* input_key[:-4]
DropLast4(key) == SubSeq(key, 1, Len(key) - 4)

\* _build_output_keys(input_key): raises ValueError (ok = FALSE, no keys),
\* or returns (valid_key, invalid_key).
_build_output_keys(input_key) ==
    IF ~EndsWith(input_key, CsvSuffix)
    THEN [ok |-> FALSE, valid_key |-> <<>>, invalid_key |-> <<>>]
    ELSE LET base == DropLast4(input_key)
         IN  [ok |-> TRUE,
              valid_key |-> base \o ValidSuffix,
              invalid_key |-> base \o InvalidSuffix]

\* ------------------------------------------------------------ json, S3

\* datetime rendered by model_dump(mode="json"): ISO 8601, a zero offset
\* written as "Z", any other offset as +HH:MM, none when naive.
RenderOffset(dt) ==
    IF ~dt.aware THEN <<>>
    ELSE IF dt.offset = 0 THEN <<"Z">>
    ELSE IF dt.offset = 120 THEN <<"+02:00">>
    ELSE <<"-05:00">>

RenderDatetime(dt) == <<dt.date, "T", dt.time>> \o RenderOffset(dt)

\* value.model_dump(mode="json")
model_dump_json(m) == [m EXCEPT !.created_at = RenderDatetime(m.created_at)]

\* json.dumps(value.model_dump(mode="json")): one line of text, no newline.
ValidLine(m) == [t |-> "line", doc |-> model_dump_json(m)]

\* json.dumps({"row": row, "errors": errors}) raises TypeError when an error
\* entry holds an exception object (ctx["error"]): no default= is given.
JsonSerializable(errors) == \A i \in 1..Len(errors) : ~errors[i].ctx_error

InvalidLine(row, errors) == [t |-> "line", doc |-> [row |-> row, errors |-> errors]]

Newline == [t |-> "nl"]

\* Mutant of AppendLine: the new line goes first.
AppendLineFront(lines, line) == <<line>> \o lines

\* list.append
AppendLine(lines, line) == Append(lines, line)

\* "\n".join(lines)
RECURSIVE Join(_)
Join(lines) ==
    IF lines = <<>> THEN <<>>
    ELSE IF Len(lines) = 1 THEN <<lines[1]>>
    ELSE <<lines[1], Newline>> \o Join(Tail(lines))

\* Mutant of ShouldPut: the object is written whatever the list holds.
ShouldPutAlways(lines) == TRUE

\* `if valid_lines:` / `if invalid_lines:`
ShouldPut(lines) == lines # <<>>

\* Mutant of put_object: an existing object is extended, not replaced.
put_object_append(bucket, key, body) ==
    {o \in bucket : o.Key # key}
        \cup {[Key |-> key, Body |-> o.Body \o <<Newline>> \o body] : o \in {x \in bucket : x.Key = key}}
        \cup (IF \E o \in bucket : o.Key = key THEN {} ELSE {[Key |-> key, Body |-> body]})

\* s3.put_object(Bucket=green_bucket, Key=key, Body=body): the object under
\* the key is created or replaced.
put_object(bucket, key, body) ==
    {o \in bucket : o.Key # key} \cup {[Key |-> key, Body |-> body]}

\* ------------------------------------------------------------------ inputs

IdTexts == {<<"1">>, <<"2">>, <<>>, <<" ", " ">>}

OrgTexts == {<<"o", "1">>, <<" ">>}

AmountTexts == {<<"1", "0", "0">>, <<"0">>, <<"-", "5">>, <<"a", "b", "c">>, <<>>}

CurrencyTexts == {"EUR", "GBP", "XXX", "eur"}

StatusTexts == {"Success", "Pending", "Done"}

IsoUtc == <<"2025-11-10", "T", "10:00:00", "+00:00">>

IsoZulu == <<"2025-11-10", "T", "10:00:00", "Z">>

IsoNaive == <<"2025-11-10", "T", "10:00:00">>

IsoPlus2 == <<"2025-11-10", "T", "10:00:00", "+02:00">>

IsoMinus5 == <<"2025-11-10", " ", "10:00:00", "-05:00">>

UnixSeconds == <<"1762768800">>

DateOnly == <<"2025-11-10">>

NotADate == <<"not-a-date">>

CreatedAtTexts == {IsoUtc, IsoZulu, IsoNaive, IsoPlus2, IsoMinus5, UnixSeconds, DateOnly, NotADate}

\* Every row text of the input domain, under a complete header.
FullRows ==
    [id : IdTexts, organization_id : OrgTexts, amount : AmountTexts,
     currency : CurrencyTexts, status : StatusTexts, created_at : CreatedAtTexts]

\* csv.DictReader: the keys of every row are the names of the header line.
\* (Every row of this model has one cell per header column.)
DictRow(full, fieldnames) == [f \in fieldnames |-> full[f]]

\* Header lines explored: complete, and two with a required column missing.
Headers == {Fields, Fields \ {"currency"}, Fields \ {"created_at"}}

GoodRow(idText) ==
    [id |-> idText, organization_id |-> <<"o", "1">>, amount |-> <<"1", "0", "0">>,
     currency |-> "EUR", status |-> "Success", created_at |-> IsoUtc]

\* The rows a batch of the handler runs is made of.
RowPool ==
    {GoodRow(<<"1">>),
     GoodRow(<<"2">>),
     [GoodRow(<<"3">>) EXCEPT !.created_at = UnixSeconds],
     [GoodRow(<<"4">>) EXCEPT !.amount = <<"-", "5">>],
     [GoodRow(<<>>) EXCEPT !.currency = "XXX"],
     [GoodRow(<<" ", " ">>) EXCEPT !.status = "Pending"],
     [id |-> <<>>, organization_id |-> <<"o", "1">>, amount |-> <<"-", "5">>,
      currency |-> "XXX", status |-> "Done", created_at |-> IsoNaive]}

SeqsUpTo(S, n) == UNION {[1..k -> S] : k \in 0..n}

\* Object keys are concatenations of these pieces.
KeyPieces ==
    {<<"a">>, <<"/">>, CsvSuffix, <<".", "t", "x", "t">>, <<".", "c", "s">>, <<"v">>}

RECURSIVE Concat(_)
Concat(parts) == IF parts = <<>> THEN <<>> ELSE Head(parts) \o Concat(Tail(parts))

AllKeys == {Concat(parts) : parts \in SeqsUpTo(KeyPieces, MaxKeyParts)}

\* The input keys the handler runs are invoked with.
HandlerKeys ==
    {<<"a", "/", "b">> \o CsvSuffix,
     <<"a", "/", "b", ".", "t", "x", "t">>,
     <<"a">> \o CsvSuffix \o CsvSuffix}

\* ------------------------------------------------------------------- state

VARIABLES
    input_key,      \* handler: key of the object in the landing bucket
    header,         \* fieldnames of the csv.DictReader
    rows,           \* the rows the reader yields, in file order
    pos,            \* index of the next row the loop takes
    valid_lines,    \* handler local
    invalid_lines,  \* handler local
    valid_key,      \* handler local
    invalid_key,    \* handler local
    pc,             \* where the invocation is
    error,          \* the exception that left the handler, "none" if none
    green,          \* objects of the green-zone bucket
    puts,           \* put_object calls of this invocation, in order
    result,         \* <<the dict returned>>, <<>> when nothing was returned
    run,            \* number of this invocation, from 1
    prev,           \* <<outcome of the previous invocation>>, <<>> on the first
    fpc,            \* function-level specifications: "call", "done"
    farg,           \* their argument
    fret            \* their result

hvars == <<input_key, header, rows, pos, valid_lines, invalid_lines, valid_key,
           invalid_key, pc, error, green, puts, result, run, prev>>

fvars == <<fpc, farg, fret>>

vars == <<hvars, fvars>>

\* The handler's locals at entry.
HandlerIdle ==
    /\ pos = 0
    /\ valid_lines = <<>>
    /\ invalid_lines = <<>>
    /\ valid_key = <<>>
    /\ invalid_key = <<>>
    /\ error = "none"
    /\ puts = <<>>
    /\ result = <<>>

\* A Lambda invocation with event {"bucket": ..., "key": input_key}; the
\* object read from the landing bucket parses to header and rows.
Init ==
    /\ input_key \in HandlerKeys
    /\ header \in Headers
    /\ rows \in SeqsUpTo({DictRow(r, header) : r \in RowPool}, MaxRows)
    /\ pc = "invoked"
    /\ HandlerIdle
    /\ green = {}
    /\ run = 1
    /\ prev = <<>>
    /\ fpc = "unused"
    /\ farg = <<>>
    /\ fret = <<>>

\* handler, lines 76-89: the object is read and decoded, the reader and the
\* two empty lists are created.
ReadCsv ==
    /\ pc = "invoked"
    /\ pc' = "loop"
    /\ pos' = 1
    /\ valid_lines' = <<>>
    /\ invalid_lines' = <<>>
    /\ UNCHANGED <<input_key, header, rows, valid_key, invalid_key, error, green,
                   puts, result, run, prev, fvars>>

\* handler, lines 92-106: one iteration of `for row in reader`.
ValidateRow ==
    /\ pc = "loop"
    /\ pos <= Len(rows)
    /\ LET row == rows[pos]
           out == validate_record(row)
       IN  IF out.ok
           THEN /\ valid_lines' = AppendLine(valid_lines, ValidLine(out.model[1]))
                /\ pos' = pos + 1
                /\ UNCHANGED <<invalid_lines, pc, error>>
           ELSE IF JsonSerializable(out.errors)
           THEN /\ invalid_lines' = AppendLine(invalid_lines, InvalidLine(row, out.errors))
                /\ pos' = pos + 1
                /\ UNCHANGED <<valid_lines, pc, error>>
           ELSE /\ pc' = "failed"
                /\ error' = "TypeError"
                /\ UNCHANGED <<valid_lines, invalid_lines, pos>>
    /\ UNCHANGED <<input_key, header, rows, valid_key, invalid_key, green, puts,
                   result, run, prev, fvars>>

\* handler, line 109: the reader is exhausted and the output keys are built.
BuildOutputKeys ==
    /\ pc = "loop"
    /\ pos > Len(rows)
    /\ LET keys == _build_output_keys(input_key)
       IN  IF keys.ok
           THEN /\ valid_key' = keys.valid_key
                /\ invalid_key' = keys.invalid_key
                /\ pc' = "put_valid"
                /\ UNCHANGED error
           ELSE /\ pc' = "failed"
                /\ error' = "ValueError"
                /\ UNCHANGED <<valid_key, invalid_key>>
    /\ UNCHANGED <<input_key, header, rows, pos, valid_lines, invalid_lines, green,
                   puts, result, run, prev, fvars>>

\* handler, lines 112-119
PutValid ==
    /\ pc = "put_valid"
    /\ pc' = "put_invalid"
    /\ IF ShouldPut(valid_lines)
       THEN /\ green' = put_object(green, valid_key, Join(valid_lines))
            /\ puts' = Append(puts, [Key |-> valid_key, Body |-> Join(valid_lines)])
       ELSE UNCHANGED <<green, puts>>
    /\ UNCHANGED <<input_key, header, rows, pos, valid_lines, invalid_lines,
                   valid_key, invalid_key, error, result, run, prev, fvars>>

\* handler, lines 122-129
PutInvalid ==
    /\ pc = "put_invalid"
    /\ pc' = "summary"
    /\ IF ShouldPut(invalid_lines)
       THEN /\ green' = put_object(green, invalid_key, Join(invalid_lines))
            /\ puts' = Append(puts, [Key |-> invalid_key, Body |-> Join(invalid_lines)])
       ELSE UNCHANGED <<green, puts>>
    /\ UNCHANGED <<input_key, header, rows, pos, valid_lines, invalid_lines,
                   valid_key, invalid_key, error, result, run, prev, fvars>>

\* handler, lines 131-142
ReturnResult ==
    /\ pc = "summary"
    /\ pc' = "returned"
    /\ result' = <<[input_key |-> input_key,
                    valid_key |-> valid_key,
                    invalid_key |-> invalid_key,
                    valid_count |-> Len(valid_lines),
                    invalid_count |-> Len(invalid_lines)]>>
    /\ UNCHANGED <<input_key, header, rows, pos, valid_lines, invalid_lines,
                   valid_key, invalid_key, error, green, puts, run, prev, fvars>>

\* What an invocation leaves behind and hands to its caller.
Outcome == [pc |-> pc, error |-> error, result |-> result, green |-> green, puts |-> puts]

\* The Lambda is invoked again with the same event on the same object (the
\* DAG's retry of invoke_card_transaction_lambda): fresh locals, same bucket.
Reinvoke ==
    /\ pc \in {"returned", "failed"}
    /\ run <= Retries
    /\ run' = run + 1
    /\ prev' = <<Outcome>>
    /\ pc' = "invoked"
    /\ pos' = 0
    /\ valid_lines' = <<>>
    /\ invalid_lines' = <<>>
    /\ valid_key' = <<>>
    /\ invalid_key' = <<>>
    /\ error' = "none"
    /\ puts' = <<>>
    /\ result' = <<>>
    /\ UNCHANGED <<input_key, header, rows, green, fvars>>

Next ==
    \/ ReadCsv
    \/ ValidateRow
    \/ BuildOutputKeys
    \/ PutValid
    \/ PutInvalid
    \/ ReturnResult
    \/ Reinvoke

Spec == Init /\ [][Next]_vars

\* ------------------------------------------- function-level specifications

HandlerUnused ==
    /\ input_key = <<>>
    /\ header = Fields
    /\ rows = <<>>
    /\ pc = "unused"
    /\ HandlerIdle
    /\ green = {}
    /\ run = 1
    /\ prev = <<>>

\* validate_record on every row text of the input domain under every header.
InitValidate ==
    /\ HandlerUnused
    /\ fpc = "call"
    /\ farg \in {DictRow(r, h) : r \in FullRows, h \in Headers}
    /\ fret = <<>>

CallValidateRecord ==
    /\ fpc = "call"
    /\ fpc' = "done"
    /\ fret' = validate_record(farg)
    /\ UNCHANGED <<farg, hvars>>

SpecValidate == InitValidate /\ [][CallValidateRecord]_vars

\* _build_output_keys on every key of up to MaxKeyParts pieces.
InitKeys ==
    /\ HandlerUnused
    /\ fpc = "call"
    /\ farg \in AllKeys
    /\ fret = <<>>

CallBuildOutputKeys ==
    /\ fpc = "call"
    /\ fpc' = "done"
    /\ fret' = _build_output_keys(farg)
    /\ UNCHANGED <<farg, hvars>>

SpecKeys == InitKeys /\ [][CallBuildOutputKeys]_vars

\* ================================================================== claims

HandlerEnded == pc \in {"returned", "failed"}

\* The rows the loop has gone through.
Processed == SubSeq(rows, 1, pos - 1)

IsValidRow(row) == validate_record(row).ok

RECURSIVE ExpectedValidLines(_)
ExpectedValidLines(rs) ==
    IF rs = <<>> THEN <<>>
    ELSE (IF IsValidRow(Head(rs))
          THEN <<[t |-> "line", doc |-> model_dump_json(validate_record(Head(rs)).model[1])]>>
          ELSE <<>>)
         \o ExpectedValidLines(Tail(rs))

RECURSIVE ExpectedInvalidLines(_)
ExpectedInvalidLines(rs) ==
    IF rs = <<>> THEN <<>>
    ELSE (IF IsValidRow(Head(rs))
          THEN <<>>
          ELSE <<[t |-> "line", doc |-> [row |-> Head(rs), errors |-> validate_record(Head(rs)).errors]]>>)
         \o ExpectedInvalidLines(Tail(rs))

\* The lines of a payload: the text between its newlines, in order.
IsLineToken(tok) == tok.t = "line"

LinesOf(body) == SelectSeq(body, IsLineToken)

\* One JSON object per line: objects and newlines alternate, no newline first or last.
OnePerLine(body) ==
    /\ Len(body) % 2 = 1
    /\ \A i \in 1..Len(body) : (body[i].t = "line") <=> (i % 2 = 1)

PutsOf(key) == SelectSeq(puts, LAMBDA p : p.Key = key)

\* --- C1 -------------------------------------------------------------------
\* C1: for every batch read under a key ending in ".csv", when the handler
\* is over each input row was appended to exactly one of valid_lines and
\* invalid_lines: the two lengths add up to the number of input rows.
C1_Completeness ==
    (HandlerEnded /\ EndsWith(input_key, CsvSuffix))
        => Len(valid_lines) + Len(invalid_lines) = Len(rows)

\* --- C2 -------------------------------------------------------------------
\* C2: the valid lines are the lines of the valid rows gone through, in file
\* order, and likewise the invalid lines; every payload written holds those
\* lines in that order, one JSON object per line.
C2_OrderPreserved ==
    /\ pos >= 1 =>
          /\ valid_lines = ExpectedValidLines(Processed)
          /\ invalid_lines = ExpectedInvalidLines(Processed)
    /\ \A i \in 1..Len(puts) :
          /\ OnePerLine(puts[i].Body)
          /\ puts[i].Key = valid_key => LinesOf(puts[i].Body) = ExpectedValidLines(rows)
          /\ puts[i].Key = invalid_key => LinesOf(puts[i].Body) = ExpectedInvalidLines(rows)

C2_Witness ==
    /\ pc = "returned"
    /\ Len(puts) = 2
    /\ Len(valid_lines) >= 2
    /\ valid_lines[1] # valid_lines[2]
    /\ \E i \in 1..Len(rows) - 1 : ~IsValidRow(rows[i]) /\ IsValidRow(rows[i + 1])

\* --- C3 -------------------------------------------------------------------
\* The six field rules as the claim words them.
ZeroZoneTokens == {"Z", "+00:00"}

ExplicitUtcTimestamp(v) ==
    /\ Len(v) = 4
    /\ v[1] \in DateTokens
    /\ v[2] \in DateTimeSeparators
    /\ v[3] \in TimeTokens
    /\ v[4] \in ZeroZoneTokens

RuleHolds(raw, f) ==
    /\ f \in DOMAIN raw
    /\ CASE f \in {"id", "organization_id"} -> Strip(raw[f]) # <<>>
         [] f = "amount" -> IntParses(raw[f]) /\ IntValue(raw[f]) >= 0
         [] f = "currency" -> raw[f] \in {"EUR", "USD", "GBP"}
         [] f = "status" -> raw[f] \in {"Success", "Error", "Pending"}
         [] f = "created_at" -> ExplicitUtcTimestamp(raw[f])

ViolatedFields(raw) == {f \in Fields : ~RuleHolds(raw, f)}

\* C3: validate_record returns the valid outcome if and only if every one of
\* the six field rules holds for the row.
C3_ValidIffAllRules ==
    fpc = "done" => (fret.ok <=> ViolatedFields(farg) = {})

\* --- C4 -------------------------------------------------------------------
\* C4: for every row with a violated field, validate_record returns the
\* invalid outcome with one error entry per violated field, and hands back
\* the raw row unchanged.
C4_OneErrorPerViolatedField ==
    (fpc = "done" /\ ViolatedFields(farg) # {}) =>
        /\ ~fret.ok
        /\ Len(fret.errors) = Cardinality(ViolatedFields(farg))
        /\ {fret.errors[i].loc : i \in 1..Len(fret.errors)} = ViolatedFields(farg)
        /\ fret.raw = <<farg>>

\* --- C5 -------------------------------------------------------------------
\* C5: for a key ending in ".csv", _build_output_keys returns the key with
\* exactly that final ".csv" replaced by "_valid.jsonl" and by
\* "_invalid.jsonl"; for any other key it fails and returns no keys.
C5_OutputKeys ==
    fpc = "done" =>
        LET n == Len(farg)
            dotcsv == /\ n >= 4
                      /\ farg[n - 3] = "."
                      /\ farg[n - 2] = "c"
                      /\ farg[n - 1] = "s"
                      /\ farg[n] = "v"
        IN  IF dotcsv
            THEN /\ fret.ok
                 /\ Len(fret.valid_key) = n + 8
                 /\ Len(fret.invalid_key) = n + 10
                 /\ SubSeq(fret.valid_key, 1, n - 4) = SubSeq(farg, 1, n - 4)
                 /\ SubSeq(fret.invalid_key, 1, n - 4) = SubSeq(farg, 1, n - 4)
                 /\ SubSeq(fret.valid_key, n - 3, n + 8) = ValidSuffix
                 /\ SubSeq(fret.invalid_key, n - 3, n + 10) = InvalidSuffix
            ELSE /\ ~fret.ok
                 /\ fret.valid_key = <<>>
                 /\ fret.invalid_key = <<>>

C5_Witness ==
    /\ fpc = "done"
    /\ fret.ok
    /\ farg = <<"a">> \o CsvSuffix \o CsvSuffix
    /\ fret.valid_key = <<"a">> \o CsvSuffix \o ValidSuffix

\* --- C6 -------------------------------------------------------------------
\* C6: when the handler returns, the valid object was put exactly when
\* valid_count > 0 and the invalid object exactly when invalid_count > 0; a
\* zero-row input puts nothing and returns both counts as 0; no object with
\* an empty body is ever put.
C6_PutIffNonEmpty ==
    /\ \A i \in 1..Len(puts) : puts[i].Body # <<>>
    /\ \A o \in green : o.Body # <<>>
    /\ pc = "returned" =>
          /\ Len(PutsOf(valid_key)) = (IF result[1].valid_count > 0 THEN 1 ELSE 0)
          /\ Len(PutsOf(invalid_key)) = (IF result[1].invalid_count > 0 THEN 1 ELSE 0)
          /\ Len(puts) = Len(PutsOf(valid_key)) + Len(PutsOf(invalid_key))
          /\ rows = <<>> =>
                /\ puts = <<>>
                /\ green = {}
                /\ result[1].valid_count = 0
                /\ result[1].invalid_count = 0

C6_Witness ==
    /\ pc = "returned"
    /\ rows # <<>>
    /\ result[1].valid_count = 0
    /\ result[1].invalid_count > 0
    /\ Len(puts) = 1

\* --- C7 -------------------------------------------------------------------
\* C7: a row that fails validation never aborts the batch: when the handler
\* is over, every row was gone through, every row that failed validation is
\* in the invalid sequence, and no exception of the row loop reached the
\* caller.
C7_RowFailureNeverAborts ==
    HandlerEnded =>
        /\ pos = Len(rows) + 1
        /\ invalid_lines = ExpectedInvalidLines(rows)
        /\ error # "TypeError"

\* --- C8 -------------------------------------------------------------------
MissingColumns == Fields \ header

\* C8 as stated: a header that lacks a required column is fatal to the
\* batch: no row is routed to the invalid sequence and the handler does not
\* return a result.
C8_MissingColumnIsFatal ==
    MissingColumns # {} =>
        /\ invalid_lines = <<>>
        /\ pc # "returned"
        /\ result = <<>>

HasMissingError(line) ==
    \E i \in 1..Len(line.doc.errors) :
        /\ line.doc.errors[i].type = "missing"
        /\ line.doc.errors[i].loc \in MissingColumns

\* C8 amended: a header that lacks a required column is not detected as a
\* structural failure.  Every row the loop gets through is routed to the
\* invalid sequence with an error of type "missing" for the absent column,
\* none is ever valid, no valid object is written, and a handler that
\* returns reports valid_count = 0 and invalid_count = the number of rows.
C8_MissingColumnRoutesRows ==
    MissingColumns # {} =>
        /\ valid_lines = <<>>
        /\ pos >= 1 => Len(invalid_lines) = pos - 1
        /\ \A i \in 1..Len(invalid_lines) : HasMissingError(invalid_lines[i])
        /\ PutsOf(valid_key) = <<>>
        /\ pc = "returned" =>
              /\ result[1].valid_count = 0
              /\ result[1].invalid_count = Len(rows)

C8_Witness ==
    /\ MissingColumns # {}
    /\ pc = "returned"
    /\ Len(invalid_lines) >= 2
    /\ Len(puts) = 1

C10_BadExtensionFailsLate ==
    ~EndsWith(input_key, CsvSuffix) =>
        /\ puts = <<>>
        /\ green = {}
        /\ result = <<>>
        /\ HandlerEnded =>
              /\ pc = "failed"
              /\ error = "ValueError"
              /\ pos = Len(rows) + 1

====
